---- MODULE Spec2Model ----
(***************************************************************************)
(* Model of the text-segmentation and result-aggregation pipeline of the    *)
(* geo-regulation compliance service (src/app/main.py, src/app/chunker.py,  *)
(* src/app/dify_client.py, src/app/models.py, src/app/database.py).         *)
(*                                                                          *)
(* The module holds one specification per component:                        *)
(*   SpecAgg     the two verdict reductions (_aggregate_results and the     *)
(*               inline selection at the end of verify_docset), applied to  *)
(*               every bounded list of verdicts;                            *)
(*   SpecBatch   _make_batches_from_records applied to every bounded list   *)
(*               of retrieved records;                                      *)
(*   SpecVerify  one verify_docset request, step by step;                   *)
(*   SpecExtract one ingest_law_document request, chunk by chunk;           *)
(*   SpecChunk / FairSpecChunk   the loop of chunk_section;                 *)
(*   SpecSplit   split_into_sections applied to every bounded text, line by *)
(*               line;                                                      *)
(*   SpecNorm    the normalization of outputs.text in _run_workflow;        *)
(*   SpecIngest  a series of ingest_law_document requests on one store;     *)
(*   SpecAggVerify   SpecAgg and SpecVerify side by side.                   *)
(* Every variable belongs to one component; a specification leaves the      *)
(* variables of the other components at their idle values.                  *)
(***************************************************************************)
EXTENDS Integers, Sequences, FiniteSets, TLC

VARIABLES
    \* ---- SpecAgg
    per_chunk,      \* the list of ComplianceResult handed to the reductions
    agg_pc,         \* "call" | "done"
    agg_ret,        \* position in per_chunk returned by _aggregate_results (0: synthetic)
    agg_result,     \* <<>> or <<the ComplianceResult _aggregate_results returned>>
    final_ret       \* position in per_chunk selected by verify_docset's inline reduction

aggVars == <<per_chunk, agg_pc, agg_ret, agg_result, final_ret>>

VARIABLES
    \* ---- SpecBatch
    b_records,      \* the retrieved records handed to _make_batches_from_records
    b_max_chars,    \* its max_chars argument
    b_batches,      \* the list it returns
    b_pc            \* "call" | "done"

batchVars == <<b_records, b_max_chars, b_batches, b_pc>>

VARIABLES
    \* ---- SpecChunk: one call of chunk_section
    ch_text,        \* section_text, a sequence of characters
    ch_max_chars,   \* max_chars
    ch_overlap,     \* overlap
    ch_start,       \* start
    ch_idx,         \* chunk_idx
    ch_chunks,      \* chunks
    ch_windows,     \* the (start, end) of every slice taken so far, in order
    ch_pc           \* "loop" | "returned"

chunkVars == <<ch_text, ch_max_chars, ch_overlap, ch_start, ch_idx, ch_chunks,
               ch_windows, ch_pc>>

VARIABLES
    \* ---- SpecVerify: one verify_docset request
    v_records,          \* records of the retrieval
    v_batches,          \* batches
    v_bi,               \* position of the next batch of `for batch_text in batches`
    v_calls,            \* the batches the verifier was invoked for, in call order
    v_responses,        \* what the verifier workflow answered, per call
    v_batch_results,    \* batch_results
    v_result,           \* <<>> or <<the ComplianceResult returned>>
    v_recorded,         \* the results given to db.record_verification, in order
    v_pc                \* "start" | "retrieve" | "loop" | "returned" | "http404" | "http500"

verifyVars == <<v_records, v_batches, v_bi, v_calls, v_responses, v_batch_results,
                v_result, v_recorded, v_pc>>

VARIABLES
    \* ---- SpecExtract: one ingest_law_document request
    e_chunks,           \* chunks = chunk_legal_text(law_full_text)
    e_ci,               \* position of the next chunk of `for chunk in chunks`
    e_all_criteria,     \* all_criteria
    e_failed,           \* the positions of the chunks whose call or normalization raised
    e_last,             \* <<>> or <<the chunk sent last and the extractor's answer>>
    e_response,         \* <<>> or <<the HTTP response of ingest_law_document>>
    e_pc                \* "loop" | "extracted" | "raised" | "responded"

extractVars == <<e_chunks, e_ci, e_all_criteria, e_failed, e_last, e_response,
                 e_pc>>

VARIABLES
    \* ---- SpecSplit: one call of split_into_sections
    sp_lines,           \* text, as the sequence of its lines (the kind of each line)
    sp_sections,        \* the list returned (merged)
    sp_pc               \* "call" | "returned"

splitVars == <<sp_lines, sp_sections, sp_pc>>

VARIABLES
    \* ---- SpecNorm: the normalization of one outputs.text in _run_workflow
    n_text,             \* output_text, a sequence of tokens
    n_out,              \* <<>> or <<what _run_workflow returned or raised>>
    n_pc                \* "call" | "done"

normVars == <<n_text, n_out, n_pc>>

VARIABLES
    \* ---- SpecIngest: a series of ingest_law_document requests on one store
    db_docs,            \* the legal_documents collection, in insertion order
    in_log              \* per request handled: what it was given and what it did

ingestVars == <<db_docs, in_log>>

vars == <<aggVars, batchVars, chunkVars, verifyVars, extractVars, splitVars, normVars,
          ingestVars>>

\* What each component leaves alone.
notAgg == <<batchVars, chunkVars, verifyVars, extractVars,
    splitVars, normVars, ingestVars>>
notBatch == <<aggVars, chunkVars, verifyVars, extractVars,
    splitVars, normVars, ingestVars>>
notChunk == <<aggVars, batchVars, verifyVars, extractVars,
    splitVars, normVars, ingestVars>>
notVerify == <<aggVars, batchVars, chunkVars, extractVars,
    splitVars, normVars, ingestVars>>
notExtract == <<aggVars, batchVars, chunkVars, verifyVars,
    splitVars, normVars, ingestVars>>
notSplit == <<aggVars, batchVars, chunkVars, verifyVars, extractVars,
    normVars, ingestVars>>
notNorm == <<aggVars, batchVars, chunkVars, verifyVars, extractVars,
    splitVars, ingestVars>>
notIngest == <<aggVars, batchVars, chunkVars, verifyVars, extractVars,
    splitVars, normVars>>

(***************************************************************************)
(* Bounds of the model.                                                     *)
(***************************************************************************)
MaxResults == 3     \* longest list of verdicts
MaxConf == 2        \* confidence_score ranges over 0..MaxConf (an ordered scale)
MaxFrags == 3       \* longest list of retrieved records
MaxBody == 1        \* small fragment texts have 0..MaxBody non-blank characters
MaxLen == 5         \* longest section text given to chunk_section
MaxChars == 3       \* chunk_section's max_chars ranges over 1..MaxChars
MaxChunks == 2      \* most chunks of one law text
MaxItems == 2       \* most criterion objects in one extractor answer
MaxLines == 3       \* most lines of a text given to split_into_sections
MaxTokens == 5      \* most tokens of an outputs.text given to the normalizer
MaxRequests == 3    \* most ingest requests sent to one store

(***************************************************************************)
(* ComplianceResult (src/app/models.py): compliance_status is a free str,   *)
(* confidence_score a float.  A list element is identified by its position  *)
(* in the list (Python returns the element object itself).                  *)
(***************************************************************************)
Statuses == {"COMPLIANT", "compliant", "NON_COMPLIANT", "Non_Compliant", "UNCERTAIN"}

Confidences == 0..MaxConf

ComplianceResult == [compliance_status : Statuses, confidence_score : Confidences]

\* str.upper() on the status strings of the model.
upper(s) ==
    CASE s = "compliant" -> "COMPLIANT"
      [] s = "Non_Compliant" -> "NON_COMPLIANT"
      [] OTHER -> s

\* The sequences over S of length 0..n.
SeqUpTo(S, n) == UNION {[1..k -> S] : k \in 0..n}

\* A max() that lets a later element of equal key replace the current best.
Replaces_on_tie(x, best) == x >= best

\* Python's `x > best` test inside max(): a later element replaces the
\* current best only when its key is strictly greater.
Replaces(x, best) == x > best

\* max(candidates, key=lambda r: r.confidence_score), candidates given as the
\* increasing sequence `idxs` of positions of `results`; folds left to right
\* starting from the first candidate.  Returns a position.
RECURSIVE max_fold(_, _, _, _)
max_fold(results, idxs, k, best) ==
    IF k > Len(idxs) THEN best
    ELSE max_fold(results, idxs, k + 1,
                  IF Replaces(results[idxs[k]].confidence_score,
                              results[best].confidence_score)
                  THEN idxs[k] ELSE best)

py_max(results, idxs) == max_fold(results, idxs, 2, idxs[1])

\* [i for i, r in enumerate(results) if r.compliance_status.upper() == status]
RECURSIVE candidates(_, _, _)
candidates(results, status, k) ==
    IF k > Len(results) THEN <<>>
    ELSE (IF upper(results[k].compliance_status) = status THEN <<k>> ELSE <<>>)
         \o candidates(results, status, k + 1)

AllPositions(results) == [k \in 1..Len(results) |-> k]

\* pick(status): the best candidate of that status, or 0 for None.
pick(results, status) ==
    LET cands == candidates(results, status, 1)
    IN  IF cands # <<>> THEN py_max(results, cands) ELSE 0

\* _aggregate_results(per_chunk): 0 stands for the synthetic UNCERTAIN result
\* built for the empty list.
_aggregate_results(results) ==
    IF results = <<>> THEN 0
    ELSE LET best_compliant == pick(results, "COMPLIANT")
             best_non == pick(results, "NON_COMPLIANT")
         IN  IF best_compliant # 0 THEN best_compliant
             ELSE IF best_non # 0 THEN best_non
             ELSE py_max(results, AllPositions(results))

\* The synthetic result _aggregate_results builds for the empty list
\* (confidence_score 0.0, criterion_id "unknown").
EmptyListResult ==
    [criterion_id |-> "unknown", compliance_status |-> "UNCERTAIN",
     confidence_score |-> 0, reasoning |-> "no_candidate_chunks",
     flag_for_human_review |-> TRUE]

\* The reduction verify_docset applies to a non-empty batch_results:
\*   final = pick("COMPLIANT") or max(batch_results, key=confidence_score)
final_selection(results) ==
    LET best_compliant == pick(results, "COMPLIANT")
    IN  IF best_compliant # 0 THEN best_compliant
        ELSE py_max(results, AllPositions(results))

(***************************************************************************)
(* SpecAgg: both reductions applied to every list of verdicts.              *)
(***************************************************************************)
InitAggIdle ==
    /\ per_chunk = <<>>
    /\ agg_pc = "idle"
    /\ agg_ret = 0
    /\ agg_result = <<>>
    /\ final_ret = 0

InitAgg ==
    /\ per_chunk \in SeqUpTo(ComplianceResult, MaxResults)
    /\ agg_pc = "call"
    /\ agg_ret = 0
    /\ agg_result = <<>>
    /\ final_ret = 0

Aggregate ==
    /\ agg_pc = "call"
    /\ agg_ret' = _aggregate_results(per_chunk)
    /\ agg_result' = <<IF _aggregate_results(per_chunk) = 0 THEN EmptyListResult
                        ELSE per_chunk[_aggregate_results(per_chunk)]>>
    /\ final_ret' = IF per_chunk = <<>> THEN 0 ELSE final_selection(per_chunk)
    /\ agg_pc' = "done"
    /\ UNCHANGED <<per_chunk, notAgg>>

(***************************************************************************)
(* Evidence batcher, src/app/main.py _make_batches_from_records.            *)
(*                                                                          *)
(* A text is kept by its run lengths: `lead` blank characters, then a core  *)
(* of `body` characters that starts and ends with a non-blank one, then     *)
(* `trail` blank characters.  body = 0 is a text of blanks only (or "").    *)
(***************************************************************************)
SEP_LEN == 21                   \* len("\n\n----- CHUNK -----\n\n")
DEFAULT_MAX_CHARS == 80000      \* the max_chars default, and verify_docset's argument

Pads == {0, 1}
Bodies == (0..MaxBody) \cup {30000}

Text == [lead : Pads, body : Bodies, trail : Pads]

EmptyText == [lead |-> 0, body |-> 0, trail |-> 0]

\* len(text)
text_len(t) == t.lead + t.body + t.trail

\* text.strip(): the blank runs at both ends are removed.
strip(t) == [lead |-> 0, body |-> t.body, trail |-> 0]

\* A retrieved record: the "segment" key may be missing or None, and so may
\* the segment's "content".
Record ==
    {[kind |-> "no_segment", content |-> EmptyText],
     [kind |-> "no_content", content |-> EmptyText]}
    \cup {[kind |-> "text", content |-> t] : t \in {x \in Text : x.body > 0 \/ x.lead = x.trail}}

\* (rec.get("segment") or {}).get("content") or ""
content_of(rec) == IF rec.kind = "text" THEN rec.content ELSE EmptyText

\* len(str(i)) for i >= 0
RECURSIVE digits(_)
digits(i) == IF i < 10 THEN 1 ELSE 1 + digits(i \div 10)

\* len(f"[chunk:{i}]")
header_len(i) == 7 + digits(i) + 1

\* piece = f"{SEP}{header}\n{text}\n": kept as the header's index and the text.
make_piece(i, text) == [chunk |-> i, text |-> text]

\* len(piece)
piece_len(piece) == SEP_LEN + header_len(piece.chunk) + 1 + text_len(piece.text) + 1

\* `if not text: continue`
is_skipped(text) == text_len(text) = 0

\* A batcher that tests the budget before adding the piece's length.
must_close_late(n_chars, plen, max_chars, cur) == n_chars > max_chars /\ cur # <<>>

\* `if n_chars + len(piece) > max_chars and cur:`
must_close(n_chars, plen, max_chars, cur) == n_chars + plen > max_chars /\ cur # <<>>

\* A batcher that forgets the batch still open when the loop ends.
final_flush_missing(batches, cur) == batches

\* `if cur: batches.append("".join(cur))` after the loop.  A batch, the joined
\* string, is kept as the sequence of its pieces.
final_flush(batches, cur) == IF cur # <<>> THEN Append(batches, cur) ELSE batches

\* The loop of _make_batches_from_records from record k (1-based; enumerate's
\* index is k - 1) with the loop state (batches, cur, n_chars).
RECURSIVE batch_loop(_, _, _, _, _, _)
batch_loop(records, max_chars, k, batches, cur, n_chars) ==
    IF k > Len(records) THEN final_flush(batches, cur)
    ELSE LET text == strip(content_of(records[k]))
             piece == make_piece(k - 1, text)
             close == must_close(n_chars, piece_len(piece), max_chars, cur)
             batches1 == IF close THEN Append(batches, cur) ELSE batches
             cur1 == IF close THEN <<>> ELSE cur
             n1 == IF close THEN 0 ELSE n_chars
         IN  IF is_skipped(text)
             THEN batch_loop(records, max_chars, k + 1, batches, cur, n_chars)
             ELSE batch_loop(records, max_chars, k + 1, batches1,
                             Append(cur1, piece), n1 + piece_len(piece))

_make_batches_from_records(records, max_chars) ==
    batch_loop(records, max_chars, 1, <<>>, <<>>, 0)

\* len(batch): the length of the joined string.
RECURSIVE batch_len(_)
batch_len(batch) ==
    IF batch = <<>> THEN 0 ELSE piece_len(Head(batch)) + batch_len(Tail(batch))

\* The budgets tried: the default, and small ones around one and two pieces
\* of a small fragment.
OnePiece == SEP_LEN + header_len(0) + 2
Budgets ==
    {DEFAULT_MAX_CHARS}
    \cup {OnePiece + d : d \in 0..MaxBody}
    \cup {2 * OnePiece + d : d \in 0..(2 * MaxBody)}

(***************************************************************************)
(* SpecBatch: the batcher applied to every list of records and budget.      *)
(***************************************************************************)
InitBatchIdle ==
    /\ b_records = <<>>
    /\ b_max_chars = DEFAULT_MAX_CHARS
    /\ b_batches = <<>>
    /\ b_pc = "idle"

InitBatch ==
    /\ b_records \in SeqUpTo(Record, MaxFrags)
    /\ b_max_chars \in Budgets
    /\ b_batches = <<>>
    /\ b_pc = "call"

MakeBatches ==
    /\ b_pc = "call"
    /\ b_batches' = _make_batches_from_records(b_records, b_max_chars)
    /\ b_pc' = "done"
    /\ UNCHANGED <<b_records, b_max_chars, notBatch>>

(***************************************************************************)
(* Uniform-window segmenter, src/app/chunker.py chunk_section.              *)
(* A section text is a sequence of characters, blank or not.                *)
(***************************************************************************)
Chars == {" ", "a"}

Min(a, b) == IF a < b THEN a ELSE b
Max(a, b) == IF a > b THEN a ELSE b

\* Python's s[a:b]: a negative bound counts from the end, and both bounds
\* are clamped to 0..len(s).
py_slice(s, a, b) ==
    LET lo == IF a < 0 THEN Max(a + Len(s), 0) ELSE Min(a, Len(s))
        hi == IF b < 0 THEN Max(b + Len(s), 0) ELSE Min(b, Len(s))
    IN  IF lo >= hi THEN <<>> ELSE SubSeq(s, lo + 1, hi)

\* str.strip() on a sequence of characters.
RECURSIVE lstrip_chars(_)
lstrip_chars(s) ==
    IF s # <<>> /\ Head(s) = " " THEN lstrip_chars(Tail(s)) ELSE s

RECURSIVE rstrip_chars(_)
rstrip_chars(s) ==
    IF s # <<>> /\ s[Len(s)] = " " THEN rstrip_chars(SubSeq(s, 1, Len(s) - 1)) ELSE s

strip_chars(s) == rstrip_chars(lstrip_chars(s))

\* end = min(start + max_chars, len(section_text))
window_end(start, max_chars, n) == Min(start + max_chars, n)

\* A window that starts one character before the place the code resumes at.
next_start_short(end, overlap) == end - overlap - 1

\* start = end - overlap
next_start(end, overlap) == end - overlap

\* A loop that numbers the chunks without the increment of chunk_idx.
next_chunk_idx_same(idx) == idx

\* chunk_idx += 1
next_chunk_idx(idx) == idx + 1

\* Chunk(section_id, chunk_index, text=chunk_text.strip())
Chunk(section_id, idx, chunk_text) ==
    [section_id |-> section_id, chunk_index |-> idx, text |-> strip_chars(chunk_text)]

\* The loop is followed for at most MaxIter iterations (a run with
\* overlap >= max_chars need not end).
MaxIter == MaxLen + 2

InitChunkIdle ==
    /\ ch_text = <<>>
    /\ ch_max_chars = 1
    /\ ch_overlap = 0
    /\ ch_start = 0
    /\ ch_idx = 0
    /\ ch_chunks = <<>>
    /\ ch_windows = <<>>
    /\ ch_pc = "idle"

\* The state on entry of the while loop: chunks = [], start = 0, chunk_idx = 0.
InitChunk ==
    /\ ch_text \in SeqUpTo(Chars, MaxLen)
    /\ ch_max_chars \in 1..MaxChars
    /\ ch_overlap \in (-1)..(MaxChars + 1)
    /\ ch_start = 0
    /\ ch_idx = 0
    /\ ch_chunks = <<>>
    /\ ch_windows = <<>>
    /\ ch_pc = "loop"

\* One iteration of `while start < len(section_text)`.
ChunkIterate ==
    /\ ch_pc = "loop"
    /\ ch_start < Len(ch_text)
    /\ Len(ch_chunks) < MaxIter
    /\ LET end == window_end(ch_start, ch_max_chars, Len(ch_text))
           chunk_text == py_slice(ch_text, ch_start, end)
       IN  /\ ch_chunks' = Append(ch_chunks, Chunk("section", ch_idx, chunk_text))
           /\ ch_windows' = Append(ch_windows, [start |-> ch_start, end |-> end])
           /\ IF end >= Len(ch_text)
              THEN /\ ch_pc' = "returned"
                   /\ UNCHANGED <<ch_start, ch_idx>>
              ELSE /\ ch_start' = next_start(end, ch_overlap)
                   /\ ch_idx' = next_chunk_idx(ch_idx)
                   /\ ch_pc' = "loop"
    /\ UNCHANGED <<ch_text, ch_max_chars, ch_overlap, notChunk>>

\* The loop condition is false: `return chunks`.
ChunkExit ==
    /\ ch_pc = "loop"
    /\ ~(ch_start < Len(ch_text))
    /\ ch_pc' = "returned"
    /\ UNCHANGED <<ch_text, ch_max_chars, ch_overlap, ch_start, ch_idx, ch_chunks,
                   ch_windows, notChunk>>

(***************************************************************************)
(* Verification orchestrator, src/app/main.py verify_docset, with           *)
(* DifyClient.run_verification_workflow (src/app/dify_client.py).           *)
(***************************************************************************)
\* The criterion under evaluation, and another id a response may carry.
CriterionId == "crit"
ResponseIds == {"crit", "other"}

\* The fields of a verdict the verifier workflow may answer with.
VerdictData ==
    [criterion_id : ResponseIds,
     compliance_status : {"COMPLIANT", "NON_COMPLIANT", "UNCERTAIN"},
     confidence_score : {1, 2},
     reasoning : {"llm"},
     flag_for_human_review : {FALSE}]

\* What one call of the verifier workflow can come to: a transport or HTTP
\* error, an outputs.text that is not JSON, JSON that is not an object, an
\* object that does not fit ComplianceResult, or a well-formed object.
VerifierResponse ==
    {[kind |-> k, data |-> <<>>] :
        k \in {"call_error", "not_json", "not_object", "schema_mismatch"}}
    \cup {[kind |-> "well_formed", data |-> <<d>>] : d \in VerdictData}

\* run_verification_workflow: raises RuntimeError unless the answer is a
\* well-formed object; then it returns ComplianceResult(**data), a model
\* instance and not a dict.
run_verification_workflow(resp) ==
    IF resp.kind = "well_formed"
    THEN [raised |-> FALSE, type |-> "ComplianceResult", fields |-> resp.data]
    ELSE [raised |-> TRUE, type |-> "RuntimeError", fields |-> <<>>]

\* Whether Python accepts `**value`: only a mapping (an object with keys()).
is_mapping(ret) == ret.type = "dict"

\* The try body of the batch loop:
\*   llm_output_dict = await run_verification_workflow(...)
\*   res = ComplianceResult(criterion_id=criterion.criterion_id, **llm_output_dict)
\* <<>> when an exception is raised (by the call, by `**` on a value that is
\* no mapping, or by the criterion_id keyword given twice), else <<res>>.
batch_result(ret) ==
    IF ret.raised \/ ~is_mapping(ret) THEN <<>>
    ELSE IF "criterion_id" \in DOMAIN ret.fields[1] THEN <<>>
    ELSE <<[ret.fields[1] EXCEPT !.criterion_id = CriterionId]>>

\* A loop that lets the exception of a failed batch end the request.
after_batch_abort(res) == IF res = <<>> THEN "http500" ELSE "loop"

\* `except Exception: ... continue`: the loop goes on after a failed batch
\* as after a good one.
after_batch(res) == "loop"

\* A synthetic result that does not ask for human review.
NoRecordsResult_unflagged ==
    [criterion_id |-> CriterionId, compliance_status |-> "UNCERTAIN",
     confidence_score |-> 0, reasoning |-> "no_relevant_chunks",
     flag_for_human_review |-> FALSE]

\* The synthetic results of verify_docset.
NoRecordsResult ==
    [criterion_id |-> CriterionId, compliance_status |-> "UNCERTAIN",
     confidence_score |-> 0, reasoning |-> "no_relevant_chunks",
     flag_for_human_review |-> TRUE]

\* A synthetic result that carries the placeholder id of the aggregator's own
\* synthetic result in place of the criterion's.
NoUsableResult_unknown ==
    [criterion_id |-> "unknown", compliance_status |-> "UNCERTAIN",
     confidence_score |-> 0, reasoning |-> "no_usable_results",
     flag_for_human_review |-> TRUE]

NoUsableResult ==
    [criterion_id |-> CriterionId, compliance_status |-> "UNCERTAIN",
     confidence_score |-> 0, reasoning |-> "no_usable_results",
     flag_for_human_review |-> TRUE]

\* A request that returns its verdict without recording the run.
record_verification_skipped(recorded, result) == recorded

\* db.record_verification(VerificationRun(..., result=result)): one more
\* document in verification_runs.
record_verification(recorded, result) == Append(recorded, result)

\* The records a retrieval may return: fragments of 30000 and 50000
\* characters, empty ones and records without a segment.
VerifyRecord ==
    {[kind |-> "no_segment", content |-> EmptyText]}
    \cup {[kind |-> "text", content |-> [lead |-> 0, body |-> b, trail |-> 0]] :
            b \in {0, 30000, 50000}}

InitVerifyIdle ==
    /\ v_records = <<>>
    /\ v_batches = <<>>
    /\ v_bi = 1
    /\ v_calls = <<>>
    /\ v_responses = <<>>
    /\ v_batch_results = <<>>
    /\ v_result = <<>>
    /\ v_recorded = <<>>
    /\ v_pc = "idle"

InitVerify ==
    /\ v_records = <<>>
    /\ v_batches = <<>>
    /\ v_bi = 1
    /\ v_calls = <<>>
    /\ v_responses = <<>>
    /\ v_batch_results = <<>>
    /\ v_result = <<>>
    /\ v_recorded = <<>>
    /\ v_pc = "start"

\* db.get_doc_set and db.get_criterion_by_id: 404 when either is missing.
VerifyLookup ==
    /\ v_pc = "start"
    /\ \E ds_found \in BOOLEAN, criterion_found \in BOOLEAN :
          v_pc' = IF ds_found /\ criterion_found THEN "retrieve" ELSE "http404"
    /\ UNCHANGED <<v_records, v_batches, v_bi, v_calls, v_responses, v_batch_results,
                   v_result, v_recorded, notVerify>>

\* kb_client.retrieve raises: HTTP 500.
VerifyRetrieveFails ==
    /\ v_pc = "retrieve"
    /\ v_pc' = "http500"
    /\ UNCHANGED <<v_records, v_batches, v_bi, v_calls, v_responses, v_batch_results,
                   v_result, v_recorded, notVerify>>

\* kb_client.retrieve returns: no records gives the synthetic result at
\* once; otherwise the records are batched and the loop begins.
VerifyRetrieve ==
    /\ v_pc = "retrieve"
    /\ \E records \in SeqUpTo(VerifyRecord, MaxFrags) :
          /\ v_records' = records
          /\ IF records = <<>>
             THEN /\ v_result' = <<NoRecordsResult>>
                  /\ v_recorded' = record_verification(v_recorded, NoRecordsResult)
                  /\ v_pc' = "returned"
                  /\ UNCHANGED v_batches
             ELSE /\ v_batches' = _make_batches_from_records(records, DEFAULT_MAX_CHARS)
                  /\ v_pc' = "loop"
                  /\ UNCHANGED <<v_result, v_recorded>>
    /\ UNCHANGED <<v_bi, v_calls, v_responses, v_batch_results, notVerify>>

\* One iteration of `for batch_text in batches`.
VerifyBatch ==
    /\ v_pc = "loop"
    /\ v_bi <= Len(v_batches)
    /\ \E resp \in VerifierResponse :
          LET res == batch_result(run_verification_workflow(resp))
          IN  /\ v_calls' = Append(v_calls, v_bi)
              /\ v_responses' = Append(v_responses, resp)
              /\ v_batch_results' = v_batch_results \o res
              /\ v_pc' = after_batch(res)
    /\ v_bi' = v_bi + 1
    /\ UNCHANGED <<v_records, v_batches, v_result, v_recorded, notVerify>>

\* After the loop: the synthetic result when nothing was collected, else
\* the inline reduction; the result is recorded and returned.
VerifyFinish ==
    /\ v_pc = "loop"
    /\ v_bi > Len(v_batches)
    /\ LET final == IF v_batch_results = <<>> THEN NoUsableResult
                    ELSE v_batch_results[final_selection(v_batch_results)]
       IN  /\ v_result' = <<final>>
           /\ v_recorded' = record_verification(v_recorded, final)
    /\ v_pc' = "returned"
    /\ UNCHANGED <<v_records, v_batches, v_bi, v_calls, v_responses, v_batch_results,
                   notVerify>>

(***************************************************************************)
(* Extraction orchestrator, src/app/dify_client.py run_extraction_workflow, *)
(* called by ingest_law_document (src/app/main.py).                         *)
(***************************************************************************)
\* The chunk dicts of a law text: section i (short enough for one window)
\* gives the chunk (section_i, 0, text).
ChunkTexts == {"x", "y"}

ChunkLists ==
    UNION {{[i \in 1..n |-> [section_id |-> i, chunk_index |-> 0, text |-> t[i]]] :
              t \in [1..n -> ChunkTexts]} : n \in 0..MaxChunks}

\* A criterion object of an extractor answer: with a criterion_id, with an
\* empty one, without the key, or not fitting the Criterion schema otherwise.
ItemKinds == {"with_id", "empty_id", "no_id", "bad_schema"}

\* What one call of the extractor workflow can come to: _run_workflow raises
\* (transport or HTTP error, outputs.text that is not JSON), or returns a
\* list, an object with a `criteria` list, an object with an `items` list,
\* an object with neither, or another JSON value.
ExtractorResponse ==
    {[kind |-> k, items |-> <<>>] :
        k \in {"call_error", "not_json", "dict_other", "scalar"}}
    \cup {[kind |-> k, items |-> it] :
            k \in {"list", "dict_criteria", "dict_items"},
            it \in SeqUpTo(ItemKinds, MaxItems)}

\* The id run_extraction_workflow derives:
\*   f"{section_id}-{chunk_index}-{sha1(section_id + str(chunk_index) + text)[:16]}"
\* the digest kept as the triple it is computed from.
derived_id(chunk) ==
    [kind |-> "derived", section_id |-> chunk.section_id,
     chunk_index |-> chunk.chunk_index,
     digest |-> <<chunk.section_id, chunk.chunk_index, chunk.text>>]

\* The id an extractor answer supplied for item `k` of chunk `c`.
given_id(c, k) ==
    [kind |-> "given", section_id |-> c, chunk_index |-> k, digest |-> <<>>]

\* Criterion(**item): criterion_id is a required str, so an item without the
\* key fails validation like any other schema mismatch.
fits_schema(item) == item \in {"with_id", "empty_id"}

\* The criteria of one answer, after `if not getattr(c, "criterion_id", None)`
\* gave the derived id to those whose id is empty.
chunk_criteria(c, chunk, items) ==
    [k \in 1..Len(items) |->
        [criterion_id |-> IF items[k] = "empty_id" THEN derived_id(chunk)
                          ELSE given_id(c, k),
         chunk |-> c, item |-> k]]

\* A loop body that rejects an object with neither a `criteria` list nor an
\* `items` list.
extract_chunk_strict(c, chunk, resp) ==
    IF resp.kind \in {"call_error", "not_json"}
    THEN [raised |-> TRUE, criteria |-> <<>>]
    ELSE IF resp.kind = "dict_other"
    THEN [raised |-> TRUE, criteria |-> <<>>]
    ELSE IF resp.kind = "scalar"
    THEN [raised |-> TRUE, criteria |-> <<>>]
    ELSE IF resp.items = <<>>
    THEN [raised |-> FALSE, criteria |-> <<>>]
    ELSE IF \E k \in 1..Len(resp.items) : ~fits_schema(resp.items[k])
    THEN [raised |-> TRUE, criteria |-> <<>>]
    ELSE [raised |-> FALSE, criteria |-> chunk_criteria(c, chunk, resp.items)]

\* The body of `for chunk in chunks` for chunk c and answer resp: whether
\* it raises, and the criteria it adds to all_criteria.
extract_chunk(c, chunk, resp) ==
    IF resp.kind \in {"call_error", "not_json"}
    THEN [raised |-> TRUE, criteria |-> <<>>]         \* _run_workflow raises
    ELSE IF resp.kind = "dict_other"
    THEN [raised |-> FALSE, criteria |-> <<>>]        \* data = []; continue
    ELSE IF resp.kind = "scalar"
    THEN [raised |-> TRUE, criteria |-> <<>>]         \* expected a list
    ELSE IF resp.items = <<>>
    THEN [raised |-> FALSE, criteria |-> <<>>]        \* if not data: continue
    ELSE IF \E k \in 1..Len(resp.items) : ~fits_schema(resp.items[k])
    THEN [raised |-> TRUE, criteria |-> <<>>]         \* did not match Criterion schema
    ELSE [raised |-> FALSE, criteria |-> chunk_criteria(c, chunk, resp.items)]

InitExtractIdle ==
    /\ e_chunks = <<>>
    /\ e_ci = 1
    /\ e_all_criteria = <<>>
    /\ e_failed = {}
    /\ e_last = <<>>
    /\ e_response = <<>>
    /\ e_pc = "idle"

\* The state on entry of the chunk loop: all_criteria = [].
InitExtract ==
    /\ e_chunks \in ChunkLists
    /\ e_ci = 1
    /\ e_all_criteria = <<>>
    /\ e_failed = {}
    /\ e_last = <<>>
    /\ e_response = <<>>
    /\ e_pc = "loop"

\* One iteration of `for chunk in chunks`: nothing in run_extraction_workflow
\* catches what the iteration raises, so a failing chunk ends the loop.
ExtractChunk ==
    /\ e_pc = "loop"
    /\ e_ci <= Len(e_chunks)
    /\ \E resp \in ExtractorResponse :
          LET out == extract_chunk(e_ci, e_chunks[e_ci], resp)
          IN  /\ e_last' = <<[chunk |-> e_ci, resp |-> resp]>>
              /\ IF out.raised
                 THEN /\ e_pc' = "raised"
                      /\ e_failed' = e_failed \cup {e_ci}
                      /\ UNCHANGED <<e_all_criteria, e_ci>>
                 ELSE /\ e_all_criteria' = e_all_criteria \o out.criteria
                      /\ e_ci' = e_ci + 1
                      /\ UNCHANGED <<e_pc, e_failed>>
    /\ UNCHANGED <<e_chunks, e_response, notExtract>>

\* `return all_criteria` after the last chunk.
ExtractReturn ==
    /\ e_pc = "loop"
    /\ e_ci > Len(e_chunks)
    /\ e_pc' = "extracted"
    /\ UNCHANGED <<e_chunks, e_ci, e_all_criteria, e_failed, e_last, e_response,
                   notExtract>>

\* ingest_law_document after the extraction returned: the LegalDocument is
\* built with the criteria, inserted and returned (201).
IngestRespond ==
    /\ e_pc = "extracted"
    /\ e_response' = <<[status |-> 201, criteria |-> e_all_criteria]>>
    /\ e_pc' = "responded"
    /\ UNCHANGED <<e_chunks, e_ci, e_all_criteria, e_failed, e_last, notExtract>>

\* ingest_law_document's `except Exception`: HTTPException(500), no document.
IngestFail ==
    /\ e_pc = "raised"
    /\ e_response' = <<[status |-> 500, criteria |-> <<>>]>>
    /\ e_pc' = "responded"
    /\ UNCHANGED <<e_chunks, e_ci, e_all_criteria, e_failed, e_last, notExtract>>

(***************************************************************************)
(* Section splitter, src/app/chunker.py split_into_sections.                *)
(* A text is the sequence of its lines, and a line is one of                *)
(*   "section"  SECTION 1. scope        "chapter"  CHAPTER 2 general        *)
(*   "numeric"  27001. rule             "upper"    DEFINITIONS              *)
(*   "plain"    the text                "blank"    (empty)                  *)
(* A returned section is a sequence of tokens: a whole line of the text, the *)
(* marker of a line (SECTION 1. / CHAPTER 2 / 27001. / the upper-case line), *)
(* or the bare word SECTION or CHAPTER of a line.                            *)
(***************************************************************************)
LineKinds == {"section", "chapter", "numeric", "upper", "plain", "blank"}

\* The line kinds one of the four alternatives of the pattern matches.
HeadingKinds == {"section", "chapter", "numeric", "upper"}

Token(t, i) == [t |-> t, line |-> i]

\* The first non-blank line at or after line i (0: none): where `\s*` of the
\* pattern stops.
next_nonblank(lines, i) ==
    LET S == {j \in i..Len(lines) : lines[j] # "blank"}
    IN  IF S = {} THEN 0 ELSE CHOOSE j \in S : \A k \in S : j <= k

\* The lookahead (?=^\s*(...)) holds at the start of line i: the next
\* non-blank line starts with one of the alternatives.
matches(lines, i) ==
    LET j == next_nonblank(lines, i)
    IN  j # 0 /\ lines[j] \in HeadingKinds

\* [A-Z][A-Z\s]+ is greedy: after an upper-case line it runs on over the
\* following upper-case and blank lines and over the word SECTION or CHAPTER
\* of the line after them.
RECURSIVE upper_run(_, _)
upper_run(lines, q) ==
    IF q > Len(lines) THEN <<>>
    ELSE IF lines[q] = "upper" THEN <<Token("marker", q)>> \o upper_run(lines, q + 1)
    ELSE IF lines[q] = "blank" THEN upper_run(lines, q + 1)
    ELSE IF lines[q] \in {"section", "chapter"} THEN <<Token("word", q)>>
    ELSE <<>>

\* The text of the capturing group for the match at the start of line i.
captured(lines, i) ==
    LET j == next_nonblank(lines, i)
    IN  IF lines[j] = "upper"
        THEN <<Token("marker", j)>> \o upper_run(lines, j + 1)
        ELSE <<Token("marker", j)>>

\* re.split(pattern, text, flags=re.M): the pieces between the match
\* positions, each followed by the text the group captured there.
RECURSIVE re_split_from(_, _, _)
re_split_from(lines, start, i) ==
    IF i > Len(lines)
    THEN <<[t |-> "seg", a |-> start, b |-> Len(lines)]>>
    ELSE IF matches(lines, i)
    THEN <<[t |-> "seg", a |-> start, b |-> i - 1], [t |-> "cap", a |-> i, b |-> i]>>
           \o re_split_from(lines, i, i + 1)
    ELSE re_split_from(lines, start, i + 1)

re_split(lines) == re_split_from(lines, 1, 1)

\* The non-blank content of a part.
part_tokens(lines, part) ==
    IF part.t = "cap" THEN captured(lines, part.a)
    ELSE SelectSeq([k \in 1..(part.b - part.a + 1) |-> Token("line", part.a + k - 1)],
                   LAMBDA tk : lines[tk.line] # "blank")

\* part.isupper(): cased characters, none of them lower-case.
isupper(lines, part) ==
    IF part.t = "cap" THEN lines[next_nonblank(lines, part.a)] = "upper"
    ELSE /\ \A k \in part.a..part.b : lines[k] \in {"upper", "blank"}
         /\ \E k \in part.a..part.b : lines[k] = "upper"

\* part.strip().startswith(("SECTION", "CHAPTER"))
starts_with_keyword(lines, part) ==
    LET j == next_nonblank(lines, part.a)
    IN  /\ j # 0
        /\ part.t = "seg" => j <= part.b
        /\ lines[j] \in {"section", "chapter"}

\* if buffer: merged.append(buffer.strip())
flush(merged, buffer) == IF buffer # <<>> THEN Append(merged, buffer) ELSE merged

\* `for part in sections`, from part k on; returns merged and buffer.
RECURSIVE merge_loop(_, _, _, _, _)
merge_loop(lines, parts, k, merged, buffer) ==
    IF k > Len(parts) THEN [merged |-> merged, buffer |-> buffer]
    ELSE LET part == parts[k]
             toks == part_tokens(lines, part)
         IN  IF toks = <<>>                         \* not part.strip()
             THEN merge_loop(lines, parts, k + 1, merged, buffer)
             ELSE IF starts_with_keyword(lines, part) \/ isupper(lines, part)
             THEN merge_loop(lines, parts, k + 1, flush(merged, buffer), toks)
             ELSE merge_loop(lines, parts, k + 1, merged, buffer \o toks)

split_into_sections(lines) ==
    LET r == merge_loop(lines, re_split(lines), 1, <<>>, <<>>)
    IN  flush(r.merged, r.buffer)

InitSplitIdle ==
    /\ sp_lines = <<>>
    /\ sp_sections = <<>>
    /\ sp_pc = "idle"

InitSplit ==
    /\ sp_lines \in SeqUpTo(LineKinds, MaxLines)
    /\ sp_sections = <<>>
    /\ sp_pc = "call"

\* The call of split_into_sections(text).
SplitIntoSections ==
    /\ sp_pc = "call"
    /\ sp_sections' = split_into_sections(sp_lines)
    /\ sp_pc' = "returned"
    /\ UNCHANGED <<sp_lines, notSplit>>

(***************************************************************************)
(* Response normalizer, src/app/dify_client.py _run_workflow with           *)
(* ThinkTagCleaner and CodeFenceUnwrapper.                                  *)
(* outputs.text is a sequence of tokens: the tags <think> and </think>, the *)
(* fence ```, the word json, the JSON text {}, text that is no JSON (x) and  *)
(* white space.                                                             *)
(***************************************************************************)
OPEN == "<think>"
CLOSE == "</think>"
FENCE == "fence"                 \* three backticks

Tokens == {OPEN, CLOSE, FENCE, "json", "{}", "x", " "}

\* The position of the first token `tok` after position i (0: none).
first_after(text, i, tok) ==
    LET S == {j \in (i + 1)..Len(text) : text[j] = tok}
    IN  IF S = {} THEN 0 ELSE CHOOSE j \in S : \A k \in S : j <= k

\* ThinkTagCleaner._RE.sub("", text) from position i on: <think>.*?</think>
\* matches from a <think> to the nearest </think> after it, and the scan
\* goes on after the match.
RECURSIVE sub_think(_, _)
sub_think(text, i) ==
    IF i > Len(text) THEN <<>>
    ELSE IF text[i] = OPEN /\ first_after(text, i, CLOSE) # 0
    THEN sub_think(text, first_after(text, i, CLOSE) + 1)
    ELSE <<text[i]>> \o sub_think(text, i + 1)

\* ThinkTagCleaner.clean
clean(text) == strip_chars(sub_think(text, 1))

\* CodeFenceUnwrapper._RE.search(text): the first fence that has a fence
\* after it, and that nearest fence; <<>> when there is no match.
fence_search(text) ==
    LET o == first_after(text, 0, FENCE)
        c == IF o = 0 THEN 0 ELSE first_after(text, o, FENCE)
    IN  IF c = 0 THEN <<>> ELSE <<[open |-> o, close |-> c]>>

\* m.group(1): what is between the fences, after the optional json tag.
group1(text, m) ==
    IF m.open + 1 < m.close /\ text[m.open + 1] = "json"
    THEN SubSeq(text, m.open + 2, m.close - 1)
    ELSE SubSeq(text, m.open + 1, m.close - 1)

\* CodeFenceUnwrapper.unwrap
unwrap(text) ==
    LET m == fence_search(text)
    IN  IF m # <<>> THEN strip_chars(group1(text, m[1])) ELSE strip_chars(text)

\* A normalizer that unwraps the fenced block before it removes the
\* <think> regions.
clean_and_unwrap_swapped(text) == clean(unwrap(text))

\* cleaned = ThinkTagCleaner.clean(output_text)
\* cleaned = CodeFenceUnwrapper.unwrap(cleaned)
clean_and_unwrap(text) == unwrap(clean(text))

\* json.loads(cleaned): the value of a JSON text, or JSONDecodeError.
json_loads(cleaned) ==
    IF cleaned = <<"{}">> THEN [ok |-> TRUE, value |-> [type |-> "dict", keys |-> {}]]
    ELSE [ok |-> FALSE, value |-> <<>>]

\* _run_workflow from `if not output_text` on, for an outputs.text that is a
\* string: what it returns or raises.
normalize(output_text) ==
    IF output_text = <<>>
    THEN [raised |-> TRUE, value |-> <<>>, message |-> [what |-> "no outputs.text", text |-> <<>>]]
    ELSE LET cleaned == clean_and_unwrap(output_text)
             parsed == json_loads(cleaned)
         IN  IF parsed.ok
             THEN [raised |-> FALSE, value |-> parsed.value,
                   message |-> [what |-> "", text |-> <<>>]]
             ELSE [raised |-> TRUE, value |-> <<>>,
                   message |-> [what |-> "Failed to parse; cleaned text was:",
                                text |-> <<cleaned>>]]

InitNormIdle ==
    /\ n_text = <<>>
    /\ n_out = <<>>
    /\ n_pc = "idle"

InitNorm ==
    /\ n_text \in SeqUpTo(Tokens, MaxTokens)
    /\ n_out = <<>>
    /\ n_pc = "call"

\* The normalization of one outputs.text.
Normalize ==
    /\ n_pc = "call"
    /\ n_out' = <<normalize(n_text)>>
    /\ n_pc' = "done"
    /\ UNCHANGED <<n_text, notNorm>>

(***************************************************************************)
(* Ingest endpoint and store, src/app/main.py ingest_law_document.          *)
(***************************************************************************)
\* The law texts sent: the texts of their sections, each short enough for
\* one window.
LawTexts == {<<"x">>, <<"x", "y">>}

\* chunk_legal_text(law_full_text): section i gives the chunk (section_i, 0, text).
chunk_legal_text(law) ==
    [i \in 1..Len(law) |-> [section_id |-> i, chunk_index |-> 0, text |-> law[i]]]

\* The answers of the extractor workflow the requests are run against.
IngestAnswers ==
    {[kind |-> "call_error", items |-> <<>>],
     [kind |-> "list", items |-> <<>>],
     [kind |-> "list", items |-> <<"with_id">>]}

\* run_extraction_workflow over all chunks, from chunk c on: the loop ends
\* with the first chunk that raises.
RECURSIVE extraction_loop(_, _, _, _)
extraction_loop(chunks, answers, c, all_criteria) ==
    IF c > Len(chunks) THEN [raised |-> FALSE, criteria |-> all_criteria]
    ELSE LET out == extract_chunk(c, chunks[c], answers[c])
         IN  IF out.raised THEN [raised |-> TRUE, criteria |-> <<>>]
             ELSE extraction_loop(chunks, answers, c + 1, all_criteria \o out.criteria)

run_extraction_workflow(law, answers) ==
    extraction_loop(chunk_legal_text(law), answers, 1, <<>>)

\* hashlib.sha256(law_full_text.encode("utf-8")).hexdigest(), kept as its
\* input (an injective hash).
sha256(law) == <<"sha256", law>>

\* The fields LegalDocument declares; its model_config sets populate_by_name
\* and arbitrary_types_allowed only, so pydantic ignores any other keyword.
LegalDocumentFields == {"_id", "law_full_text", "criteria"}

\* LegalDocument(**kwargs) with the id of its default factory: the keywords
\* that are declared fields.
LegalDocument(kwargs, oid) ==
    [f \in LegalDocumentFields |-> IF f = "_id" THEN oid ELSE kwargs[f]]

\* doc.model_dump(by_alias=True): the declared fields.
model_dump(doc) == doc

\* collection.find_one({"content_hash": content_hash})
find_legal_document_by_hash(docs, content_hash) ==
    LET S == {i \in 1..Len(docs) :
                 /\ "content_hash" \in DOMAIN docs[i]
                 /\ docs[i]["content_hash"] = content_hash}
    IN  IF S = {} THEN <<>> ELSE <<docs[CHOOSE i \in S : \A j \in S : i <= j]>>

InitIngestIdle ==
    /\ db_docs = <<>>
    /\ in_log = <<>>

\* An empty legal_documents collection and no request yet.
InitIngest ==
    /\ db_docs = <<>>
    /\ in_log = <<>>

\* One ingest_law_document request, from the duplicate check to the response.
Ingest ==
    /\ Len(in_log) < MaxRequests
    /\ \E law \in LawTexts :
       \E answers \in [1..Len(law) -> IngestAnswers] :
          LET content_hash == sha256(law)
              existing_doc == find_legal_document_by_hash(db_docs, content_hash)
              out == run_extraction_workflow(law, answers)
              legal_document ==
                  LegalDocument([law_full_text |-> law, criteria |-> out.criteria,
                                 content_hash |-> content_hash], Len(db_docs) + 1)
          IN  IF existing_doc # <<>>
              THEN /\ in_log' = Append(in_log, [law_full_text |-> law, status |-> 200,
                                                extracted |-> FALSE, inserted |-> FALSE])
                   /\ UNCHANGED db_docs
              ELSE IF out.raised
              THEN /\ in_log' = Append(in_log, [law_full_text |-> law, status |-> 500,
                                                extracted |-> TRUE, inserted |-> FALSE])
                   /\ UNCHANGED db_docs
              ELSE /\ db_docs' = Append(db_docs, model_dump(legal_document))
                   /\ in_log' = Append(in_log, [law_full_text |-> law, status |-> 201,
                                                extracted |-> TRUE, inserted |-> TRUE])
    /\ UNCHANGED notIngest

(***************************************************************************)
(* The specifications.                                                      *)
(***************************************************************************)
NextAgg == Aggregate

InitSpecAgg == InitAgg /\ InitBatchIdle /\ InitChunkIdle /\ InitVerifyIdle /\ InitExtractIdle
    /\ InitSplitIdle /\ InitNormIdle /\ InitIngestIdle

SpecAgg == InitSpecAgg /\ [][NextAgg]_vars

NextBatch == MakeBatches

InitSpecBatch == InitBatch /\ InitAggIdle /\ InitChunkIdle /\ InitVerifyIdle /\ InitExtractIdle
    /\ InitSplitIdle /\ InitNormIdle /\ InitIngestIdle

SpecBatch == InitSpecBatch /\ [][NextBatch]_vars

NextChunk == ChunkIterate \/ ChunkExit

InitSpecChunk == InitChunk /\ InitAggIdle /\ InitBatchIdle /\ InitVerifyIdle /\ InitExtractIdle
    /\ InitSplitIdle /\ InitNormIdle /\ InitIngestIdle

SpecChunk == InitSpecChunk /\ [][NextChunk]_vars

NextVerify ==
    \/ VerifyLookup
    \/ VerifyRetrieveFails
    \/ VerifyRetrieve
    \/ VerifyBatch
    \/ VerifyFinish

InitSpecVerify == InitVerify /\ InitAggIdle /\ InitBatchIdle /\ InitChunkIdle /\ InitExtractIdle
    /\ InitSplitIdle /\ InitNormIdle /\ InitIngestIdle

SpecVerify == InitSpecVerify /\ [][NextVerify]_vars

NextExtract ==
    \/ ExtractChunk
    \/ ExtractReturn
    \/ IngestRespond
    \/ IngestFail

InitSpecExtract ==
    InitExtract /\ InitAggIdle /\ InitBatchIdle /\ InitChunkIdle /\ InitVerifyIdle
    /\ InitSplitIdle /\ InitNormIdle /\ InitIngestIdle

SpecExtract == InitSpecExtract /\ [][NextExtract]_vars

NextSplit == SplitIntoSections

InitSpecSplit ==
    InitSplit /\ InitAggIdle /\ InitBatchIdle /\ InitChunkIdle /\ InitVerifyIdle
    /\ InitExtractIdle /\ InitNormIdle /\ InitIngestIdle

SpecSplit == InitSpecSplit /\ [][NextSplit]_vars

NextNorm == Normalize

InitSpecNorm ==
    InitNorm /\ InitAggIdle /\ InitBatchIdle /\ InitChunkIdle /\ InitVerifyIdle
    /\ InitExtractIdle /\ InitSplitIdle /\ InitIngestIdle

SpecNorm == InitSpecNorm /\ [][NextNorm]_vars

NextIngest == Ingest

InitSpecIngest ==
    InitIngest /\ InitAggIdle /\ InitBatchIdle /\ InitChunkIdle /\ InitVerifyIdle
    /\ InitExtractIdle /\ InitSplitIdle /\ InitNormIdle

SpecIngest == InitSpecIngest /\ [][NextIngest]_vars

\* The aggregator and the verification orchestrator side by side: a
\* behaviour is a call of the reductions or a verify_docset request.
NextAggVerify ==
    \/ Aggregate
    \/ VerifyLookup
    \/ VerifyRetrieveFails
    \/ VerifyRetrieve
    \/ VerifyBatch
    \/ VerifyFinish

InitSpecAggVerify == InitSpecAgg \/ InitSpecVerify

SpecAggVerify == InitSpecAggVerify /\ [][NextAggVerify]_vars

\* The loop is synchronous code: while an iteration is possible it is taken.
FairSpecChunk == SpecChunk /\ WF_vars(NextChunk)

(***************************************************************************)
(* Claims about the Aggregator (SpecAgg).                                   *)
(***************************************************************************)
\* The positions of `results` whose status is `status`, case-insensitively.
OfStatus(results, status) ==
    {i \in 1..Len(results) : upper(results[i].compliance_status) = status}

\* The position in S with the highest confidence, the earliest among equals.
FirstBest(results, S) ==
    CHOOSE i \in S : \A j \in S :
        \/ results[j].confidence_score < results[i].confidence_score
        \/ results[j].confidence_score = results[i].confidence_score /\ i <= j

\* The precedence policy: COMPLIANT, else NON_COMPLIANT, else any.
PolicyChoice(results) ==
    IF OfStatus(results, "COMPLIANT") # {}
    THEN FirstBest(results, OfStatus(results, "COMPLIANT"))
    ELSE IF OfStatus(results, "NON_COMPLIANT") # {}
    THEN FirstBest(results, OfStatus(results, "NON_COMPLIANT"))
    ELSE FirstBest(results, 1..Len(results))

\* C1: for every non-empty list, _aggregate_results returns the result the
\* precedence policy chooses (best COMPLIANT, else best NON_COMPLIANT, else
\* best overall; status compared case-insensitively), and a tie in
\* confidence is won by the result that occurs first in the list.
C1_AggregatePolicy ==
    (agg_pc = "done" /\ per_chunk # <<>>) => agg_ret = PolicyChoice(per_chunk)

\* C1 witness: no COMPLIANT result, two NON_COMPLIANT results of equal
\* confidence (one in lower case), an UNCERTAIN of higher confidence, and
\* the first NON_COMPLIANT one returned.
C1_Witness ==
    /\ agg_pc = "done"
    /\ Len(per_chunk) = 3
    /\ per_chunk[1].compliance_status = "UNCERTAIN"
    /\ per_chunk[2].compliance_status = "Non_Compliant"
    /\ per_chunk[3].compliance_status = "NON_COMPLIANT"
    /\ per_chunk[2].confidence_score = per_chunk[3].confidence_score
    /\ per_chunk[1].confidence_score > per_chunk[2].confidence_score
    /\ agg_ret = 2

NonEmpty(records) ==
    {k \in 1..Len(records) :
        records[k].kind = "text" /\ records[k].content.body > 0}

\* The elements of a finite set of integers in increasing order.
Ascending(S) ==
    CHOOSE f \in [1..Cardinality(S) -> S] :
        \A i, j \in 1..Cardinality(S) : i < j => f[i] < f[j]

\* The [chunk:i] headers of all batches, read in batch order.
RECURSIVE Headers(_)
Headers(batches) ==
    IF batches = <<>> THEN <<>>
    ELSE [p \in 1..Len(Head(batches)) |-> Head(batches)[p].chunk]
         \o Headers(Tail(batches))

\* C6: the headers found across all batches, in batch order, are exactly the
\* input indices of the fragments whose trimmed text is non-empty, in
\* increasing order and once each; each piece carries the trimmed text of
\* its fragment; and no batch is empty.
C6_EveryFragmentOnce ==
    b_pc = "done" =>
        /\ Headers(b_batches)
             = [p \in 1..Cardinality(NonEmpty(b_records)) |->
                    Ascending(NonEmpty(b_records))[p] - 1]
        /\ \A b \in 1..Len(b_batches) :
              /\ b_batches[b] # <<>>
              /\ \A p \in 1..Len(b_batches[b]) :
                    LET piece == b_batches[b][p]
                    IN  piece.text.body = b_records[piece.chunk + 1].content.body
                        /\ piece.text.lead = 0 /\ piece.text.trail = 0

\* C6 witness: a blank-only fragment and a record without a segment are
\* skipped, and the other fragments end up in two batches.
C6_Witness ==
    /\ b_pc = "done"
    /\ Len(b_records) = 3
    /\ b_records[2].kind = "text" /\ b_records[2].content.body = 0
    /\ b_records[2].content.lead = 1
    /\ Len(b_batches) = 2
    /\ Headers(b_batches) = <<0, 2>>

\* C7: every batch is at most max_chars long unless it holds exactly one
\* piece that alone is longer than max_chars; a batch is closed only when
\* the next piece would take it over max_chars; and three fragments of
\* 30000 characters with budget 80000 give two batches, fragments 1-2 and 3.
C7_BudgetRespected ==
    b_pc = "done" =>
        /\ \A b \in 1..Len(b_batches) :
              \/ batch_len(b_batches[b]) <= b_max_chars
              \/ Len(b_batches[b]) = 1 /\ piece_len(b_batches[b][1]) > b_max_chars
        /\ \A b \in 1..(Len(b_batches) - 1) :
              batch_len(b_batches[b]) + piece_len(b_batches[b + 1][1]) > b_max_chars
        /\ ( /\ Len(b_records) = 3
             /\ \A k \in 1..3 : b_records[k].kind = "text"
                                 /\ text_len(b_records[k].content) = 30000
             /\ b_max_chars = 80000 )
           => ( /\ Len(b_batches) = 2
                /\ Headers(<<b_batches[1]>>) = <<0, 1>>
                /\ Headers(<<b_batches[2]>>) = <<2>> )

\* C7 witness: the three 30000-character fragments under budget 80000,
\* packed into two batches.
C7_Witness ==
    /\ b_pc = "done"
    /\ b_max_chars = 80000
    /\ Len(b_records) = 3
    /\ \A k \in 1..3 : b_records[k].kind = "text"
                        /\ text_len(b_records[k].content) = 30000
    /\ Len(b_batches) = 2

(***************************************************************************)
(* Claims about the verification orchestrator (SpecVerify).                 *)
(***************************************************************************)
\* The calls whose answer was a well-formed ComplianceResult object.
WellFormedCalls == {i \in 1..Len(v_responses) : v_responses[i].kind = "well_formed"}

\* C3: when some batches fail and at least one batch's verifier call
\* returns a well-formed ComplianceResult, the final verdict is one of the
\* verdicts returned for the batches that succeeded, and not the synthetic
\* "no usable results" UNCERTAIN result.
C3_SucceededBatchesAggregated ==
    ( /\ v_pc = "returned"
      /\ WellFormedCalls # {}
      /\ WellFormedCalls # 1..Len(v_responses) ) =>
        /\ v_result # <<NoUsableResult>>
        /\ \E i \in WellFormedCalls :
              /\ v_result[1].compliance_status = v_responses[i].data[1].compliance_status
              /\ v_result[1].confidence_score = v_responses[i].data[1].confidence_score
              /\ v_result[1].reasoning = v_responses[i].data[1].reasoning

\* C4: a failed batch never aborts the run: the verifier is invoked exactly
\* once per batch, in batch order, whatever the earlier outcomes were; the
\* loop can always go on; and the run ends by returning one verdict.
C4_FailureDoesNotAbort ==
    (v_pc \in {"loop", "returned", "http500"} /\ v_records # <<>>) =>
        /\ v_pc # "http500"
        /\ v_calls = [i \in 1..(v_bi - 1) |-> i]
        /\ v_pc = "loop" => ENABLED (VerifyBatch \/ VerifyFinish)
        /\ v_pc = "returned" =>
              /\ v_calls = [i \in 1..Len(v_batches) |-> i]
              /\ Len(v_result) = 1

\* C4 witness: three batches, the first two calls failed (a call error and
\* a schema mismatch), the verifier was still invoked for the third, and
\* the run returned.
C4_Witness ==
    /\ v_pc = "returned"
    /\ Len(v_batches) = 3
    /\ v_calls = <<1, 2, 3>>
    /\ v_responses[1].kind = "call_error"
    /\ v_responses[2].kind = "schema_mismatch"
    /\ Len(v_result) = 1

IsSynthetic(r) ==
    /\ r.compliance_status = "UNCERTAIN"
    /\ r.confidence_score = 0
    /\ r.flag_for_human_review = TRUE

\* C16: when no verdict was collected, the result is UNCERTAIN with
\* confidence_score 0.0 and flag_for_human_review true: for
\* _aggregate_results given the empty list, and for a verify_docset run
\* that returns with batch_results empty (no records retrieved, or every
\* batch failed).
C16_SyntheticWhenNothingCollected ==
    /\ (agg_pc = "done" /\ per_chunk = <<>>) =>
            /\ Len(agg_result) = 1
            /\ IsSynthetic(agg_result[1])
    /\ (v_pc = "returned" /\ v_batch_results = <<>>) =>
            /\ Len(v_result) = 1
            /\ IsSynthetic(v_result[1])
            /\ v_recorded = v_result

\* C16 witness: a run over two or more batches, every one of them failed,
\* that returned.
C16_Witness ==
    /\ v_pc = "returned"
    /\ Len(v_calls) >= 2
    /\ v_batch_results = <<>>
    /\ v_result # <<>>

\* C20: a request that found the doc set and the criterion and whose
\* retrieval succeeded has recorded exactly one VerificationRun when it
\* returns, with the verdict it returns, and nothing before; a request that
\* ends with 404 or with the 500 of a failed retrieval has recorded nothing
\* and has made no verifier call.
C20_RecordedOnce ==
    /\ v_pc = "returned" =>
            /\ Len(v_result) = 1
            /\ v_recorded = v_result
    /\ v_pc \in {"start", "retrieve", "loop"} => v_recorded = <<>> /\ v_result = <<>>
    /\ v_pc \in {"http404", "http500"} =>
            /\ v_recorded = <<>>
            /\ v_calls = <<>>
            /\ v_result = <<>>

\* C20 witness: a request that made verifier calls and returned, one run
\* recorded.
C20_Witness ==
    /\ v_pc = "returned"
    /\ v_calls # <<>>
    /\ Len(v_recorded) = 1
    /\ v_recorded[1] = v_result[1]

(***************************************************************************)
(* Claims about the extraction orchestrator (SpecExtract).                  *)
(***************************************************************************)
\* C5: an extraction run in which the call or the normalization fails for
\* some chunks still returns the criteria of the chunks that succeeded: the
\* failure is confined to its chunk, the remaining chunks are processed,
\* and the response carries the collected criteria in chunk order.
C5_FailedChunkSkipped ==
    (e_pc = "responded" /\ e_failed # {} /\ e_all_criteria # <<>>) =>
        /\ e_ci = Len(e_chunks) + 1
        /\ e_response = <<[status |-> 201, criteria |-> e_all_criteria]>>

\* The answers that hold a list of criterion objects.
ListKinds == {"list", "dict_criteria", "dict_items"}

\* C13: a criterion object that lacks a criterion_id (key absent or value
\* empty) in an answer whose objects fit the schema otherwise does not make
\* the chunk fail, and is in all_criteria with the id derived from the
\* chunk's (section_id, chunk_index, text).
C13_MissingIdDerived ==
    \A l \in 1..Len(e_last) :
        LET c == e_last[l].chunk
            resp == e_last[l].resp
            lacking == {k \in 1..Len(resp.items) : resp.items[k] \in {"empty_id", "no_id"}}
        IN  (/\ resp.kind \in ListKinds
             /\ \A k \in 1..Len(resp.items) : resp.items[k] # "bad_schema"
             /\ lacking # {}) =>
                /\ c \notin e_failed
                /\ \A k \in lacking :
                      \E q \in 1..Len(e_all_criteria) :
                          /\ e_all_criteria[q].chunk = c
                          /\ e_all_criteria[q].item = k
                          /\ e_all_criteria[q].criterion_id = derived_id(e_chunks[c])

\* The criteria all_criteria holds for chunk c.
CriteriaOf(c) == SelectSeq(e_all_criteria, LAMBDA cr : cr.chunk = c)

C18_DerivedIdsUnique ==
    \A p, q \in 1..Len(e_all_criteria) :
        (/\ p # q
         /\ e_all_criteria[p].criterion_id.kind = "derived"
         /\ e_all_criteria[q].criterion_id.kind = "derived") =>
            e_all_criteria[p].criterion_id # e_all_criteria[q].criterion_id

(***************************************************************************)
(* Claims about the uniform-window segmenter (SpecChunk, FairSpecChunk).    *)
(***************************************************************************)
\* C8: with overlap = max_chars or overlap > max_chars the call fails with a
\* configuration error for every text: it takes no window, returns no
\* chunks and does not keep looping.
C8_OverlapRejected ==
    ch_overlap >= ch_max_chars =>
        /\ ch_pc \in {"loop", "raised"}
        /\ ch_windows = <<>>

\* C9: with overlap < max_chars the call terminates, the window start
\* strictly increases from one iteration to the next, and every emitted
\* chunk has at most max_chars characters.
C9_TerminatesBounded ==
    /\ [][(ch_overlap < ch_max_chars /\ ch_pc = "loop" /\ ch_pc' = "loop")
            => ch_start' > ch_start]_vars
    /\ [](ch_overlap < ch_max_chars =>
            \A i \in 1..Len(ch_chunks) : Len(ch_chunks[i].text) <= ch_max_chars)
    /\ [](ch_overlap < ch_max_chars => <>(ch_pc = "returned"))

\* C9 witness: a run with 0 < overlap < max_chars that returned after three
\* or more windows.
C9_Witness ==
    /\ ch_pc = "returned"
    /\ 0 < ch_overlap /\ ch_overlap < ch_max_chars
    /\ Len(ch_chunks) >= 3

\* C10: for a non-empty text and 0 <= overlap < max_chars, the first window
\* starts at 0, each later window starts exactly max_chars - overlap after
\* the previous one, only the last window reaches len(text) and it ends
\* exactly there, the windows cover every character position, and
\* chunk_index runs 0, 1, 2, ... with one value per chunk.
C10_WindowsCover ==
    (ch_text # <<>> /\ 0 <= ch_overlap /\ ch_overlap < ch_max_chars) =>
        /\ Len(ch_chunks) = Len(ch_windows)
        /\ \A i \in 1..Len(ch_windows) :
              /\ ch_windows[i].start
                   = (IF i = 1 THEN 0
                      ELSE ch_windows[i - 1].start + ch_max_chars - ch_overlap)
              /\ ch_chunks[i].chunk_index = i - 1
              /\ ch_chunks[i].text
                   = strip_chars(SubSeq(ch_text, ch_windows[i].start + 1, ch_windows[i].end))
              /\ i < Len(ch_windows) => ch_windows[i].end < Len(ch_text)
        /\ ch_pc = "returned" =>
              /\ ch_windows # <<>>
              /\ ch_windows[Len(ch_windows)].end = Len(ch_text)
              /\ \A pos \in 0..(Len(ch_text) - 1) :
                    \E i \in 1..Len(ch_windows) :
                        ch_windows[i].start <= pos /\ pos < ch_windows[i].end

\* C10 witness: a returned run over a text longer than max_chars with
\* overlapping windows, the last one shorter than max_chars.
C10_Witness ==
    /\ ch_pc = "returned"
    /\ 0 < ch_overlap /\ ch_overlap < ch_max_chars
    /\ Len(ch_windows) >= 2
    /\ LET w == ch_windows[Len(ch_windows)]
       IN  w.end = Len(ch_text) /\ w.end - w.start < ch_max_chars

\* C11: every chunk emitted for a section (a trimmed, non-empty text, as
\* chunk_legal_text hands over) with 0 <= overlap < max_chars has a text that
\* is non-empty after trimming: a window holding only blanks produces no
\* chunk.
C11_NoEmptyChunk ==
    (/\ ch_text # <<>>
     /\ strip_chars(ch_text) = ch_text
     /\ 0 <= ch_overlap /\ ch_overlap < ch_max_chars) =>
        \A i \in 1..Len(ch_chunks) : ch_chunks[i].text # <<>>

(***************************************************************************)
(* Claims about the section splitter (SpecSplit).                           *)
(***************************************************************************)
HeadingLines(lines) == {i \in 1..Len(lines) : lines[i] \in HeadingKinds}

\* Non-empty text precedes the first heading line.
HasPreamble(lines) ==
    LET j == next_nonblank(lines, 1) IN j # 0 /\ lines[j] \notin HeadingKinds

\* The lines of the text a section holds something of.
LinesOf(section) == {section[k].line : k \in 1..Len(section)}

\* C12: the returned sections partition the text by its heading lines: every
\* heading line begins exactly one section, no line of the text has a part
\* in two sections, no section is empty, and there are as many sections as
\* heading lines, plus one when non-empty text precedes the first heading.
C12_SectionsPartition ==
    sp_pc = "returned" =>
        /\ \A h \in HeadingLines(sp_lines) :
              Cardinality({s \in 1..Len(sp_sections) :
                              sp_sections[s][1] = Token("line", h)}) = 1
        /\ \A s, u \in 1..Len(sp_sections) :
              s # u => LinesOf(sp_sections[s]) \cap LinesOf(sp_sections[u]) = {}
        /\ \A s \in 1..Len(sp_sections) : sp_sections[s] # <<>>
        /\ Len(sp_sections)
             = Cardinality(HeadingLines(sp_lines))
                 + (IF HasPreamble(sp_lines) THEN 1 ELSE 0)

(***************************************************************************)
(* Claims about the response normalizer (SpecNorm).                         *)
(***************************************************************************)
\* Position p of text lies in a reasoning region: a <think> at or before p
\* with no </think> between it and p, and a </think> at or after p.
InThinkRegion(text, p) ==
    \E o \in 1..p :
        /\ text[o] = OPEN
        /\ \A q \in (o + 1)..(p - 1) : text[q] # CLOSE
        /\ \E c \in p..Len(text) : c > o /\ text[c] = CLOSE

\* The text without its reasoning regions, trimmed.
WithoutThink(text) ==
    LET keep == SelectSeq([i \in 1..Len(text) |-> i], LAMBDA i : ~InThinkRegion(text, i))
    IN  strip_chars([k \in 1..Len(keep) |-> text[keep[k]]])

\* The inner content of the first fenced block of text (after its json tag
\* if it has one), trimmed; the whole text when it has no fenced block.
FirstBlockOrAll(text) ==
    LET F == {i \in 1..Len(text) : text[i] = FENCE}
    IN  IF Cardinality(F) < 2 THEN strip_chars(text)
        ELSE LET o == CHOOSE i \in F : \A j \in F : i <= j
                 c == CHOOSE i \in F \ {o} : \A j \in F \ {o} : i <= j
                 from == IF o + 1 < c /\ text[o + 1] = "json" THEN o + 2 ELSE o + 1
             IN  strip_chars(SubSeq(text, from, c - 1))

\* C17: for a non-empty outputs.text the normalizer removes every reasoning
\* region first, then keeps the inner content of the first fenced block if
\* one remains (else the whole rest), then parses: it returns exactly the
\* JSON value of that cleaned text, or raises an error that holds the
\* cleaned text and returns nothing.
C17_NormalizerOrder ==
    (n_pc = "done" /\ n_text # <<>>) =>
        LET cleaned == FirstBlockOrAll(WithoutThink(n_text))
            out == n_out[1]
        IN  IF json_loads(cleaned).ok
            THEN /\ ~out.raised
                 /\ out.value = json_loads(cleaned).value
            ELSE /\ out.raised
                 /\ out.value = <<>>
                 /\ out.message.text = <<cleaned>>

\* C17 witness: a text with a reasoning region that holds a fence, followed
\* by JSON, for which a value was returned.
C17_Witness ==
    /\ n_pc = "done"
    /\ ~n_out[1].raised
    /\ \E o, f, c \in 1..Len(n_text) :
          /\ o < f /\ f < c
          /\ n_text[o] = OPEN /\ n_text[f] = FENCE /\ n_text[c] = CLOSE

(***************************************************************************)
(* Claims about the ingest endpoint (SpecIngest).                           *)
(***************************************************************************)
\* C19: once a request for a law text was answered 201, every later request
\* with the same law_full_text gets the stored document (200) without a run
\* of the extraction workflow and without an insert; the collection never
\* holds two documents of the same content hash.
C19_DuplicateDetected ==
    /\ \A i, j \in 1..Len(in_log) :
          (/\ i < j
           /\ in_log[i].status = 201
           /\ in_log[j].law_full_text = in_log[i].law_full_text) =>
              /\ in_log[j].status = 200
              /\ ~in_log[j].extracted
              /\ ~in_log[j].inserted
    /\ \A p, q \in 1..Len(db_docs) :
          p # q => sha256(db_docs[p].law_full_text) # sha256(db_docs[q].law_full_text)

====
